---- MODULE Spec2Model ----
(***************************************************************************)
(* Model of label_studio/io_storages/s3/utils.py: credential resolution    *)
(* and client construction (get_client_and_resource), object resolution    *)
(* (resolve_s3_url) and metadata lookup (AWS.get_blob_metadata).           *)
(*                                                                         *)
(* Python strings are sequences of one-character strings, bytes are        *)
(* sequences of integers 0..255.  An optional value is None (<<>>) or      *)
(* Some(x) (<<x>>), so that '' (Some(<<>>)) and None stay distinct.        *)
(* Every behaviour is one call: Init draws the operation, its arguments    *)
(* and the environment variables; the external SDK's answers are drawn     *)
(* where the code calls the SDK.                                           *)
(***************************************************************************)
EXTENDS Integers, Sequences, FiniteSets, TLC

VARIABLES op, pc, args, env, locals, provider, session, calls, log, result, err

vars == <<op, pc, args, env, locals, provider, session, calls, log, result, err>>

(* ------------------------------ bounds -------------------------------- *)

\* longest explicit / managed secret access key drawn as an input
MaxSecretLen == 5
\* longest part of an object reference after its prefix
MaxUrlTail == 3
\* longest object body, in bytes
MaxBody == 3

(* --------------------------- Python values ---------------------------- *)

None == <<>>

Some(x) == <<x>>

Val(o) == o[1]

\* bool(x) of an optional string: None and '' are falsy
Truthy(o) == o # None /\ Val(o) # <<>>

\* str(x) as an f-string renders it
PyStr(o) == IF o = None THEN <<"N", "o", "n", "e">> ELSE Val(o)

\* s[:n]
Take(s, n) == SubSeq(s, 1, IF Len(s) < n THEN Len(s) ELSE n)

\* s[n:]  (n counted from 0 as in Python)
Drop(s, n) == SubSeq(s, n + 1, Len(s))

\* t in s, for strings
Contains(s, t) == \E i \in 1..(Len(s) - Len(t) + 1) : SubSeq(s, i, i + Len(t) - 1) = t

\* s.find(c): the 0-based index of the first c, -1 when there is none
Find(s, c) == IF \E i \in 1..Len(s) : s[i] = c
              THEN (CHOOSE i \in 1..Len(s) : s[i] = c /\ \A j \in 1..(i - 1) : s[j] # c) - 1
              ELSE -1

Last(s) == s[Len(s)]

SeqsUpTo(S, n) == UNION {[1..m -> S] : m \in 0..n}

(* ------------------------- credential resolution ---------------------- *)

EnvNames == {"AWS_ACCESS_KEY_ID", "AWS_SECRET_ACCESS_KEY", "AWS_SESSION_TOKEN",
             "S3_region", "S3_ENDPOINT"}

\* get_env(name): the value of the same-named environment variable, or None
get_env(name) == env[name]

\* a fallback that tests `a is not None` instead of the truth of a
PyOr_NoneOnly(a, b) == IF a # None THEN a ELSE b

\* Python's `a or b` on optional strings
PyOr(a, b) == IF Truthy(a) THEN a ELSE b

\* What boto3.Session().get_credentials().get_frozen_credentials() can do:
\*   "frozen"             the chain found credentials, returned frozen
\*   "NoCredentialsError" the provider raises NoCredentialsError
\*   "returns_None"       get_credentials() found nothing and returned None
ProviderKinds == {"frozen", "NoCredentialsError", "returns_None"}

NoCreds(kind) == [kind |-> kind, access_key |-> None, secret_key |-> None, token |-> None]

ManagedCredentials ==
  { [kind |-> "frozen", access_key |-> Some(<<"M", "A">>),
     secret_key |-> Some(<<"m", "s", "k">>), token |-> None],
    [kind |-> "frozen", access_key |-> Some(<<"M", "B">>),
     secret_key |-> Some(<<"m", "s", "e", "c", "r", "e", "t">>),
     token |-> Some(<<"M", "T">>)] }

ProviderOutcomes ==
  ManagedCredentials \cup {NoCreds("NoCredentialsError"), NoCreds("returns_None")}

\* get_sagemaker_execution_role_credentials() against one provider outcome:
\* the value returned, the exception leaving the function, the warnings logged
get_sagemaker_execution_role_credentials(o) ==
  CASE o.kind = "frozen" ->
         [ret |-> Some([AccessKeyId |-> o.access_key,
                        SecretAccessKey |-> o.secret_key,
                        SessionToken |-> o.token]),
          exc |-> None, log |-> <<>>]
    [] o.kind = "NoCredentialsError" ->
         [ret |-> None, exc |-> None,
          log |-> <<[level |-> "warning", event |-> "sagemaker_credentials", msg |-> <<>>]>>]
    [] o.kind = "returns_None" ->
         \* None.get_frozen_credentials(): not a NoCredentialsError, not caught
         [ret |-> None, exc |-> Some("AttributeError"), log |-> <<>>]

\* a resolution that lets an explicit argument win over the managed credentials
ResolveCredentials_ExplicitFirst(sm, a) ==
  [aws_access_key_id |->
     IF sm # None /\ ~Truthy(a.aws_access_key_id) THEN Val(sm).AccessKeyId
     ELSE PyOr(a.aws_access_key_id, get_env("AWS_ACCESS_KEY_ID")),
   aws_secret_access_key |->
     IF sm # None /\ ~Truthy(a.aws_secret_access_key) THEN Val(sm).SecretAccessKey
     ELSE PyOr(a.aws_secret_access_key, get_env("AWS_SECRET_ACCESS_KEY")),
   aws_session_token |->
     IF sm # None /\ ~Truthy(a.aws_session_token) THEN Val(sm).SessionToken
     ELSE PyOr(a.aws_session_token, get_env("AWS_SESSION_TOKEN"))]

\* lines 34-42: the credential set handed to the session
ResolveCredentials(sm, a) ==
  IF sm # None
  THEN [aws_access_key_id |-> Val(sm).AccessKeyId,
        aws_secret_access_key |-> Val(sm).SecretAccessKey,
        aws_session_token |-> Val(sm).SessionToken]
  ELSE [aws_access_key_id |-> PyOr(a.aws_access_key_id, get_env("AWS_ACCESS_KEY_ID")),
        aws_secret_access_key |-> PyOr(a.aws_secret_access_key, get_env("AWS_SECRET_ACCESS_KEY")),
        aws_session_token |-> PyOr(a.aws_session_token, get_env("AWS_SESSION_TOKEN"))]

\* aws_secret_access_key[:4] + "..." if aws_secret_access_key else None
SecretLogField(secret) ==
  IF Truthy(secret) THEN Some(Take(Val(secret), 4) \o <<".", ".", ".">>) ELSE None

\* the f-string of logger.debug
SessionLogMessage(c) ==
  <<"C", "r", "e", "a", "t", "e", " ", "b", "o", "t", "o", "3", " ", "s", "e", "s", "s",
    "i", "o", "n", " ", "w", "i", "t", "h", " ", "a", "c", "c", "e", "s", "s", " ", "k",
    "e", "y", " ", "i", "d", "=">> \o PyStr(c.aws_access_key_id)
  \o <<",", " ", "s", "e", "c", "r", "e", "t", " ", "k", "e", "y", "=">>
  \o PyStr(SecretLogField(c.aws_secret_access_key))
  \o <<",", " ", "s", "e", "s", "s", "i", "o", "n", " ", "t", "o", "k", "e", "n", "=">>
  \o PyStr(c.aws_session_token)

DefaultRegion == <<"u", "s", "-", "e", "a", "s", "t", "-", "1">>

\* lines 55-58
ClientSettings(a) ==
  [region_name |-> PyOr(PyOr(a.region_name, get_env("S3_region")), Some(DefaultRegion)),
   endpoint_url |-> IF Truthy(PyOr(a.s3_endpoint, get_env("S3_ENDPOINT")))
                    THEN PyOr(a.s3_endpoint, get_env("S3_ENDPOINT")) ELSE None]

\* session.client('s3', ...) / session.resource('s3', ...)
S3Handle(kind, c, settings) ==
  [kind |-> kind, credentials |-> c, settings |-> settings, signature_version |-> "s3v4"]

(* ----------------------------- urlparse ------------------------------- *)

\* urllib.parse.scheme_chars, cut to the characters the references are drawn from
SchemeChars == {"s", "a", "k", "b", "u", "c", "e", "t", "p", "h", "o", "y", "3", "-"}

Letters == SchemeChars \ {"3", "-"}

\* _splitnetloc(url, 2): the netloc ends at the first of '/', '?', '#'
SplitNetloc(url) ==
  LET ends == {i \in 3..Len(url) : url[i] \in {"/", "?", "#"}}
      delim == IF ends = {} THEN Len(url) + 1
               ELSE CHOOSE i \in ends : \A j \in ends : i <= j
  IN  [netloc |-> SubSeq(url, 3, delim - 1), rest |-> SubSeq(url, delim, Len(url))]

\* urlparse(url, allow_fragments=False): scheme, netloc, path and query.
\* No reference holds ';', '[' or ']', so params stay '' and no ValueError is raised.
UrlParse(url) ==
  LET i == Find(url, ":")
      hasScheme == /\ i > 0
                   /\ url[1] \in Letters
                   /\ \A j \in 1..i : url[j] \in SchemeChars
      scheme == IF hasScheme THEN Take(url, i) ELSE <<>>
      u1 == IF hasScheme THEN Drop(url, i + 1) ELSE url
      hasNetloc == Take(u1, 2) = <<"/", "/">>
      netloc == IF hasNetloc THEN SplitNetloc(u1).netloc ELSE <<>>
      u2 == IF hasNetloc THEN SplitNetloc(u1).rest ELSE u1
      q == Find(u2, "?")
  IN  [scheme |-> scheme,
       netloc |-> netloc,
       path |-> IF q >= 0 THEN Take(u2, q) ELSE u2,
       query |-> IF q >= 0 THEN Drop(u2, q + 1) ELSE <<>>]

\* s.lstrip('/')
RECURSIVE LStripSlash(_)
LStripSlash(s) == IF s # <<>> /\ s[1] = "/" THEN LStripSlash(Tail(s)) ELSE s

\* lines 65-67: the bucket and the key of an object reference
BucketOf(url) == UrlParse(url).netloc

\* a key that loses one leading slash only (path[1:])
KeyOf_StripOne(url) ==
  IF UrlParse(url).path # <<>> /\ UrlParse(url).path[1] = "/"
  THEN Tail(UrlParse(url).path) ELSE UrlParse(url).path

KeyOf(url) == LStripSlash(UrlParse(url).path)

(* ------------------------------ base64 -------------------------------- *)

B64Alphabet ==
  <<"A", "B", "C", "D", "E", "F", "G", "H", "I", "J", "K", "L", "M", "N", "O", "P", "Q",
    "R", "S", "T", "U", "V", "W", "X", "Y", "Z", "a", "b", "c", "d", "e", "f", "g", "h",
    "i", "j", "k", "l", "m", "n", "o", "p", "q", "r", "s", "t", "u", "v", "w", "x", "y",
    "z", "0", "1", "2", "3", "4", "5", "6", "7", "8", "9", "+", "/">>

B64Char(n) == B64Alphabet[n + 1]

\* an encoder that drops the low bits of a last, single byte
RECURSIVE b64encode_LastByte(_)
b64encode_LastByte(bs) ==
  CASE Len(bs) = 0 -> <<>>
    [] Len(bs) = 1 ->
         <<B64Char(bs[1] \div 4), B64Char(0), "=", "=">>
    [] Len(bs) = 2 ->
         <<B64Char(bs[1] \div 4), B64Char((bs[1] % 4) * 16 + bs[2] \div 16),
           B64Char((bs[2] % 16) * 4), "=">>
    [] OTHER ->
         <<B64Char(bs[1] \div 4), B64Char((bs[1] % 4) * 16 + bs[2] \div 16),
           B64Char((bs[2] % 16) * 4 + bs[3] \div 64), B64Char(bs[3] % 64)>>
         \o b64encode_LastByte(Drop(bs, 3))

\* base64.b64encode(bytes).decode('utf-8'): three bytes become four characters,
\* a last group of one or two bytes is padded with '='
RECURSIVE b64encode(_)
b64encode(bs) ==
  CASE Len(bs) = 0 -> <<>>
    [] Len(bs) = 1 ->
         <<B64Char(bs[1] \div 4), B64Char((bs[1] % 4) * 16), "=", "=">>
    [] Len(bs) = 2 ->
         <<B64Char(bs[1] \div 4), B64Char((bs[1] % 4) * 16 + bs[2] \div 16),
           B64Char((bs[2] % 16) * 4), "=">>
    [] OTHER ->
         <<B64Char(bs[1] \div 4), B64Char((bs[1] % 4) * 16 + bs[2] \div 16),
           B64Char((bs[2] % 16) * 4 + bs[3] \div 64), B64Char(bs[3] % 64)>>
         \o b64encode(Drop(bs, 3))

\* line 73: the data URL of a fetched object
DataUrl(content_type, body) ==
  <<"d", "a", "t", "a", ":">> \o content_type
  \o <<";", "b", "a", "s", "e", "6", "4", ",">> \o b64encode(body)

(* --------------------------- the S3 client ---------------------------- *)

\* str(n) of a natural number
RECURSIVE Decimal(_)
Decimal(n) ==
  LET d == <<"0", "1", "2", "3", "4", "5", "6", "7", "8", "9">>[(n % 10) + 1]
  IN  IF n < 10 THEN <<d>> ELSE Decimal(n \div 10) \o <<d>>

\* what client.generate_presigned_url answers when it succeeds; the SDK signs
\* the request, which is kept here as the URL's readable part
PresignedUrl(bucket, key, expires_in) ==
  <<"h", "t", "t", "p", "s", ":", "/", "/">> \o bucket \o <<"/">> \o key
  \o <<"?", "X", "-", "A", "m", "z", "-", "E", "x", "p", "i", "r", "e", "s", "=">>
  \o Decimal(expires_in)

\* one call on the client, as the SDK sees it
GetObjectCall(bucket, key) ==
  [method |-> "get_object", ClientMethod |-> "", Bucket |-> bucket, Key |-> key,
   ExpiresIn |-> 0]

\* a request that always asks for the default expiry
PresignCall_DefaultExpiry(bucket, key, expires_in) ==
  [method |-> "generate_presigned_url", ClientMethod |-> "get_object",
   Bucket |-> bucket, Key |-> key, ExpiresIn |-> 3600]

\* lines 78-80
PresignCall(bucket, key, expires_in) ==
  [method |-> "generate_presigned_url", ClientMethod |-> "get_object",
   Bucket |-> bucket, Key |-> key, ExpiresIn |-> expires_in]

\* a call together with what the SDK answered: "ok" and the value returned, or
\* the name of the exception raised
Answered(call, outcome, returned) ==
  [call |-> call, outcome |-> outcome, returned |-> returned]

\* a handler that lets the client error go on to the caller
OnPresignClientError_Raise(url, exc) == [result |-> None, err |-> Some(exc)]

\* lines 81-83: the except ClientError branch
OnPresignClientError(url, exc) == [result |-> Some(url), err |-> None]

\* a handler that degrades to the reference, as the presign branch does
OnFetchError_ReturnUrl(url, exc) == [result |-> Some(url), err |-> None]

\* lines 71 and 118: no handler around get_object
OnFetchError(url, exc) == [result |-> None, err |-> Some(exc)]

\* a copy that forgets to pop 'ResponseMetadata'
StripMetadata_BodyOnly(object) ==
  [k \in (DOMAIN object) \ {"Body"} |-> object[k]]

\* lines 119-122: dict(object) without 'Body' and 'ResponseMetadata'
StripMetadata(object) ==
  [k \in (DOMAIN object) \ {"Body", "ResponseMetadata"} |-> object[k]]

(* ------------------------------ inputs -------------------------------- *)

Ops == {"get_client_and_resource", "resolve_s3_url", "get_blob_metadata"}

SecretChars == <<"s", "3", "c", "r", "3", "t", "k", "e", "y">>

AccessKeyArgs == {None, Some(<<>>), Some(<<"A", "K">>)}

SecretArgs == {None} \cup {Some(Take(SecretChars, n)) : n \in 0..MaxSecretLen}

TokenArgs == {None, Some(<<>>), Some(<<"T", "K">>)}

RegionArgs == {None, Some(<<"e", "u", "-", "w", "e", "s", "t", "-", "1">>)}

UnsetEnv == [n \in EnvNames |-> None]

CredentialEnvs ==
  { [UnsetEnv EXCEPT !["AWS_ACCESS_KEY_ID"] = k, !["AWS_SECRET_ACCESS_KEY"] = s,
                     !["AWS_SESSION_TOKEN"] = t] :
      k \in {None, Some(<<>>), Some(<<"E", "A">>)},
      s \in {None, Some(<<"e", "n", "v", "s", "e", "c">>)},
      t \in {None, Some(<<"E", "T">>)} }

\* a client handed in by the caller
ExternalClient ==
  S3Handle("client",
           [aws_access_key_id |-> Some(<<"A", "K">>),
            aws_secret_access_key |-> Some(SecretChars),
            aws_session_token |-> None],
           [region_name |-> Some(DefaultRegion), endpoint_url |-> None])

DefaultExpiresIn == 3600

ExpiresArgs == {DefaultExpiresIn, 60}

ExampleUrl ==
  <<"s", "3", ":", "/", "/", "b", "u", "c", "k", "e", "t", "-", "a", "/", "p", "a", "t",
    "h", "/", "t", "o", "/", "k", "e", "y">>

UrlPrefixes == {<<"s", "3", ":", "/", "/">>, <<>>}

UrlTailChars == {"a", "/", "?", "#"}

\* a reference to the key '/path' of bucket-a
DoubleSlashUrl ==
  <<"s", "3", ":", "/", "/", "b", "u", "c", "k", "e", "t", "-", "a", "/", "/", "p", "a",
    "t", "h">>

Urls ==
  {p \o t : p \in UrlPrefixes, t \in SeqsUpTo(UrlTailChars, MaxUrlTail)}
  \cup {ExampleUrl, DoubleSlashUrl}

Bytes == {0, 77, 255}

Bodies == SeqsUpTo(Bytes, MaxBody)

ContentTypes == {<<"i", "m", "a", "g", "e", "/", "p", "n", "g">>, <<"a", "/", "b">>}

\* get_object answers for resolve_s3_url: the body and the content-type header,
\* which ResponseMetadata.HTTPHeaders may lack
FetchedObjects ==
  [Body : Bodies, content_type : {Some(c) : c \in ContentTypes}]
  \cup {[Body |-> <<77>>, content_type |-> None]}

FetchErrors == {"NoSuchKey", "AccessDenied", "EndpointConnectionError"}

PresignErrors == {"ClientError", "NoCredentialsError"}

AttrNames == {"Body", "ResponseMetadata", "ContentLength", "ETag"}

\* get_object answers for get_blob_metadata: any set of attributes
MetaObjects ==
  { [k \in K |-> CASE k = "Body" -> <<77>>
                   [] k = "ResponseMetadata" -> [HTTPStatusCode |-> 200]
                   [] k = "ContentLength" -> n
                   [] k = "ETag" -> <<"e", "t", "a", "g">>] :
      K \in SUBSET AttrNames, n \in {0, 1} }

NoArgs ==
  [aws_access_key_id |-> None, aws_secret_access_key |-> None, aws_session_token |-> None,
   region_name |-> None, s3_endpoint |-> None, url |-> <<>>, bucket_name |-> <<>>,
   client |-> None, presign |-> TRUE, expires_in |-> DefaultExpiresIn]

ClientArgs ==
  { [NoArgs EXCEPT !.aws_access_key_id = k, !.aws_secret_access_key = s,
                   !.aws_session_token = t, !.region_name = r] :
      k \in AccessKeyArgs, s \in SecretArgs, t \in TokenArgs, r \in RegionArgs }

\* expires_in is read on the presign branch only
ResolveArgs ==
  { [NoArgs EXCEPT !.url = u, !.client = Some(ExternalClient), !.expires_in = e] :
      u \in Urls, e \in ExpiresArgs }
  \cup { [NoArgs EXCEPT !.url = u, !.client = Some(ExternalClient), !.presign = FALSE] :
           u \in Urls }

MetadataArgs ==
  { [NoArgs EXCEPT !.url = <<"k", "e", "y">>, !.bucket_name = <<"b">>, !.client = c,
                   !.aws_access_key_id = k, !.aws_secret_access_key = s] :
      c \in {None, Some(ExternalClient)}, k \in {None, Some(<<"A", "K">>)},
      s \in {None, Some(<<"s", "3", "c">>)} }

NoLocals ==
  [sagemaker_credentials |-> None, credentials |-> None, bucket_name |-> <<>>,
   key |-> <<>>, client |-> None, object |-> None]

(* ---------------------------- the calls ------------------------------- *)

Init ==
  /\ op \in Ops
  /\ \/ op = "get_client_and_resource" /\ args \in ClientArgs /\ env \in CredentialEnvs
        /\ pc = "gcr_33"
     \/ op = "resolve_s3_url" /\ args \in ResolveArgs /\ env = UnsetEnv
        /\ pc = "resolve_65"
     \/ op = "get_blob_metadata" /\ args \in MetadataArgs
        /\ env \in {UnsetEnv, [UnsetEnv EXCEPT !["AWS_ACCESS_KEY_ID"] = Some(<<"E", "A">>)]}
        /\ pc = "meta_110"
  /\ locals = NoLocals
  /\ provider = <<>>
  /\ session = None
  /\ calls = <<>>
  /\ log = <<>>
  /\ result = None
  /\ err = None

Raise(exc) ==
  /\ err' = exc
  /\ pc' = "raised"

\* line 33: the first query of the managed-execution-role source
SagemakerFirst ==
  /\ pc = "gcr_33"
  /\ \E o \in ProviderOutcomes :
       LET r == get_sagemaker_execution_role_credentials(o) IN
       /\ provider' = Append(provider, o)
       /\ log' = log \o r.log
       /\ IF r.exc # None
          THEN Raise(r.exc) /\ UNCHANGED locals
          ELSE /\ locals' = [locals EXCEPT !.sagemaker_credentials = r.ret]
               /\ pc' = IF r.ret # None THEN "gcr_35" ELSE "gcr_44"
               /\ UNCHANGED err
  /\ UNCHANGED <<op, args, env, session, calls, result>>

\* line 35: the source is queried again, into a variable nothing reads
SagemakerSecond ==
  /\ pc = "gcr_35"
  /\ \E o \in ProviderOutcomes :
       LET r == get_sagemaker_execution_role_credentials(o) IN
       /\ provider' = Append(provider, o)
       /\ log' = log \o r.log
       /\ IF r.exc # None
          THEN Raise(r.exc) /\ UNCHANGED locals
          ELSE /\ locals' = [locals EXCEPT !.credentials = r.ret]
               /\ pc' = "gcr_44"
               /\ UNCHANGED err
  /\ UNCHANGED <<op, args, env, session, calls, result>>

\* lines 36-61: resolve the credentials, log, build the session and the handles
BuildClient ==
  /\ pc = "gcr_44"
  /\ LET c == ResolveCredentials(locals.sagemaker_credentials, args)
         client == S3Handle("client", c, ClientSettings(args))
         resource == S3Handle("resource", c, ClientSettings(args))
     IN
     /\ log' = Append(log, [level |-> "debug", event |-> "create_session",
                            msg |-> SessionLogMessage(c)])
     /\ session' = Some(c)
     /\ \E built \in BOOLEAN :
          IF ~built
          THEN Raise(Some("ValueError")) /\ UNCHANGED <<locals, result>>
          ELSE /\ UNCHANGED err
               /\ IF op = "get_blob_metadata"
                  THEN /\ locals' = [locals EXCEPT !.client = Some(client)]
                       /\ pc' = "meta_118"
                       /\ UNCHANGED result
                  ELSE /\ result' = Some(<<client, resource>>)
                       /\ pc' = "done"
                       /\ UNCHANGED locals
  /\ UNCHANGED <<op, args, env, provider, calls>>

\* lines 65-70: parse the reference, then take the branch of the presign flag
ResolveParse ==
  /\ pc = "resolve_65"
  /\ locals' = [locals EXCEPT !.bucket_name = BucketOf(args.url), !.key = KeyOf(args.url),
                              !.client = args.client]
  /\ pc' = IF ~args.presign THEN "resolve_71" ELSE "resolve_78"
  /\ UNCHANGED <<op, args, env, provider, session, calls, log, result, err>>

\* lines 71-74: fetch the object and return it as a data URL
ResolveFetch ==
  /\ pc = "resolve_71"
  /\ \/ \E exc \in FetchErrors :
          /\ calls' = Append(calls, Answered(GetObjectCall(locals.bucket_name, locals.key),
                                            exc, None))
          /\ result' = OnFetchError(args.url, exc).result
          /\ err' = OnFetchError(args.url, exc).err
          /\ pc' = IF OnFetchError(args.url, exc).err # None THEN "raised" ELSE "done"
          /\ UNCHANGED locals
     \/ \E object \in FetchedObjects :
          /\ calls' = Append(calls, Answered(GetObjectCall(locals.bucket_name, locals.key),
                                            "ok", Some(object)))
          /\ locals' = [locals EXCEPT !.object = Some(object)]
          /\ IF object.content_type = None
             THEN Raise(Some("KeyError")) /\ UNCHANGED result
             ELSE /\ result' = Some(DataUrl(Val(object.content_type), object.Body))
                  /\ pc' = "done"
                  /\ UNCHANGED err
  /\ UNCHANGED <<op, args, env, provider, session, log>>

\* lines 77-86: ask the SDK for a presigned URL
ResolvePresign ==
  /\ pc = "resolve_78"
  /\ \/ \E exc \in PresignErrors :
          /\ calls' = Append(calls, Answered(PresignCall(locals.bucket_name, locals.key,
                                                        args.expires_in), exc, None))
          /\ IF exc = "ClientError"
             THEN /\ log' = Append(log, [level |-> "warning", event |-> "presign_failed",
                                         msg |-> <<>>])
                  /\ result' = OnPresignClientError(args.url, exc).result
                  /\ err' = OnPresignClientError(args.url, exc).err
                  /\ pc' = IF OnPresignClientError(args.url, exc).err # None
                           THEN "raised" ELSE "done"
             ELSE Raise(Some(exc)) /\ UNCHANGED <<log, result>>
     \/ LET call == PresignCall(locals.bucket_name, locals.key, args.expires_in)
            presigned_url == PresignedUrl(call.Bucket, call.Key, call.ExpiresIn)
        IN
        /\ calls' = Append(calls, Answered(call, "ok", Some(presigned_url)))
        /\ log' = Append(log, [level |-> "debug", event |-> "presigned", msg |-> <<>>])
        /\ result' = Some(presigned_url)
        /\ pc' = "done"
        /\ UNCHANGED err
  /\ UNCHANGED <<op, args, env, locals, provider, session>>

\* lines 110-117: build a client unless the caller handed one in
MetadataStart ==
  /\ pc = "meta_110"
  /\ IF args.client = None
     THEN pc' = "gcr_33" /\ UNCHANGED locals
     ELSE pc' = "meta_118" /\ locals' = [locals EXCEPT !.client = args.client]
  /\ UNCHANGED <<op, args, env, provider, session, calls, log, result, err>>

\* lines 118-123: fetch the object and return its attributes
MetadataFetch ==
  /\ pc = "meta_118"
  /\ \/ \E exc \in FetchErrors :
          /\ calls' = Append(calls, Answered(GetObjectCall(args.bucket_name, args.url),
                                            exc, None))
          /\ result' = OnFetchError(args.url, exc).result
          /\ err' = OnFetchError(args.url, exc).err
          /\ pc' = IF OnFetchError(args.url, exc).err # None THEN "raised" ELSE "done"
          /\ UNCHANGED locals
     \/ \E object \in MetaObjects :
          /\ calls' = Append(calls, Answered(GetObjectCall(args.bucket_name, args.url),
                                            "ok", Some(object)))
          /\ locals' = [locals EXCEPT !.object = Some(object)]
          /\ result' = Some(StripMetadata(object))
          /\ pc' = "done"
          /\ UNCHANGED err
  /\ UNCHANGED <<op, args, env, provider, session, log>>

Next ==
  \/ SagemakerFirst
  \/ SagemakerSecond
  \/ BuildClient
  \/ ResolveParse
  \/ ResolveFetch
  \/ ResolvePresign
  \/ MetadataStart
  \/ MetadataFetch

Spec == Init /\ [][Next]_vars

(* ------------------------------ claims -------------------------------- *)

\* the credential source was asked at least once and the first answer is o
FirstProviderAnswer(kind) == Len(provider) >= 1 /\ provider[1].kind = kind

EnvNameOf(field) ==
  CASE field = "aws_access_key_id" -> "AWS_ACCESS_KEY_ID"
    [] field = "aws_secret_access_key" -> "AWS_SECRET_ACCESS_KEY"
    [] field = "aws_session_token" -> "AWS_SESSION_TOKEN"

CredentialFields == {"aws_access_key_id", "aws_secret_access_key", "aws_session_token"}

\* C1: when the managed-execution-role source yields credentials, the session is
\* built with exactly the managed access key id, secret key and session token,
\* whatever the explicit arguments and the AWS_* variables hold; and a call that
\* returns after the source yielded credentials has built its session.
C1_ManagedCredentialsTakePriority ==
  FirstProviderAnswer("frozen") =>
    /\ session # None =>
         /\ Val(session).aws_access_key_id = provider[1].access_key
         /\ Val(session).aws_secret_access_key = provider[1].secret_key
         /\ Val(session).aws_session_token = provider[1].token
    /\ pc \in {"done", "meta_118"} => session # None

C1_Witness ==
  /\ op = "get_client_and_resource" /\ pc = "done"
  /\ FirstProviderAnswer("frozen") /\ Len(provider) = 2 /\ provider[2] # provider[1]
  /\ args.aws_access_key_id = Some(<<"A", "K">>)
  /\ args.aws_session_token = Some(<<"T", "K">>)
  /\ env["AWS_SECRET_ACCESS_KEY"] # None
  /\ provider[1].token = None
  /\ Val(session).aws_session_token = None

\* C2 (as claimed): whenever the credential source has no credentials, the lookup
\* reports 'no managed credentials' after a warning and client construction goes
\* on with the explicit/environment source; no error leaves credential resolution.
C2_MissingManagedCredentialsFailSoftly ==
  (Len(provider) >= 1 /\ provider[1].kind # "frozen") =>
    /\ locals.sagemaker_credentials = None
    /\ \E i \in 1..Len(log) : log[i].event = "sagemaker_credentials"
    /\ session = None => (pc = "gcr_44" /\ err = None)

\* the part of C2 the code keeps: a NoCredentialsError is caught, logged, and the
\* explicit/environment source is used
C2_NoCredentialsErrorIsCaught ==
  FirstProviderAnswer("NoCredentialsError") =>
    /\ locals.sagemaker_credentials = None
    /\ \E i \in 1..Len(log) : log[i].event = "sagemaker_credentials"
    /\ session = None => (pc = "gcr_44" /\ err = None)

\* C3 (as claimed): without managed credentials each field is its explicit
\* argument when one is supplied (is not None), else its environment variable.
C3_SuppliedArgumentWins ==
  (session # None /\ ~FirstProviderAnswer("frozen")) =>
    \A f \in CredentialFields :
      Val(session)[f] = IF args[f] # None THEN args[f] ELSE env[EnvNameOf(f)]

\* C3 (amended): without managed credentials each field, independently of the
\* other two, is its explicit argument when that is a non-empty string, else the
\* value of its environment variable, which is None when the variable is unset;
\* the session gets exactly these values.
C3_NonEmptyArgumentWins ==
  (session # None /\ ~FirstProviderAnswer("frozen")) =>
    \A f \in CredentialFields :
      Val(session)[f] = IF args[f] \notin {None, Some(<<>>)}
                        THEN args[f] ELSE env[EnvNameOf(f)]

C3_Witness ==
  /\ session # None /\ FirstProviderAnswer("NoCredentialsError")
  /\ args.aws_access_key_id = Some(<<"A", "K">>) /\ env["AWS_ACCESS_KEY_ID"] # None
  /\ Val(session).aws_access_key_id = Some(<<"A", "K">>)
  /\ args.aws_secret_access_key = Some(<<>>)
  /\ Val(session).aws_secret_access_key = Some(<<"e", "n", "v", "s", "e", "c">>)
  /\ args.aws_session_token = None /\ env["AWS_SESSION_TOKEN"] = None
  /\ Val(session).aws_session_token = None

\* C8 (as claimed): the diagnostic entry of client construction never holds a
\* resolved secret access key in full, whatever its length.
C8_SecretNeverLoggedInFull ==
  \A i \in 1..Len(log) :
    (log[i].event = "create_session" /\ Truthy(Val(session).aws_secret_access_key)) =>
      ~Contains(log[i].msg, Val(Val(session).aws_secret_access_key))

\* the call resolve_s3_url or get_blob_metadata made last, with its answer
LastCallIs(method, outcomes) ==
  /\ calls # <<>>
  /\ Last(calls).call.method = method
  /\ Last(calls).outcome \in outcomes

CallsOf(method) == {i \in 1..Len(calls) : calls[i].call.method = method}

DataPrefix == <<"d", "a", "t", "a", ":">>

Base64Marker == <<";", "b", "a", "s", "e", "6", "4", ",">>

\* C4: with presign=True and a client error from the presigning call, the call
\* returns the input URL unchanged: nothing is raised, the result is not
\* missing, and the object is not fetched.
C4_PresignFailureReturnsInputUrl ==
  (op = "resolve_s3_url" /\ LastCallIs("generate_presigned_url", {"ClientError"})) =>
    /\ pc = "done"
    /\ err = None
    /\ result = Some(args.url)
    /\ CallsOf("get_object") = {}

C4_Witness ==
  /\ op = "resolve_s3_url" /\ args.presign /\ args.url = ExampleUrl /\ args.expires_in = 60
  /\ LastCallIs("generate_presigned_url", {"ClientError"})
  /\ result = Some(ExampleUrl)

\* C5: with presign=True and a presigning call that succeeds, the result is
\* exactly the URL that call produced; the call asked for method get_object on
\* the parsed bucket and key with the caller's expires_in; the result is neither
\* the input URL nor a data URL, and the object is not fetched.
C5_PresignSuccessReturnsPresignedUrl ==
  (op = "resolve_s3_url" /\ LastCallIs("generate_presigned_url", {"ok"})) =>
    /\ pc = "done" /\ err = None
    /\ result = Last(calls).returned
    /\ result # None
    /\ Last(calls).call.ClientMethod = "get_object"
    /\ Last(calls).call.Bucket = locals.bucket_name
    /\ Last(calls).call.Key = locals.key
    /\ Last(calls).call.ExpiresIn = args.expires_in
    /\ Val(result) # args.url
    /\ Take(Val(result), Len(DataPrefix)) # DataPrefix
    /\ Len(calls) = 1

C5_Witness ==
  /\ op = "resolve_s3_url" /\ pc = "done" /\ args.url = ExampleUrl
  /\ args.expires_in = 60 /\ args.expires_in # DefaultExpiresIn
  /\ LastCallIs("generate_presigned_url", {"ok"})
  /\ result = Last(calls).returned

\* the value of a base64 character
B64Index(c) == CHOOSE n \in 0..63 : B64Alphabet[n + 1] = c

\* base64 decoding (RFC 4648): four characters become three bytes, '=' marks
\* the missing bytes of the last group
RECURSIVE b64decode(_)
b64decode(cs) ==
  IF Len(cs) < 4 THEN <<>>
  ELSE LET a == B64Index(cs[1])
           b == B64Index(cs[2])
           b1 == a * 4 + b \div 16
       IN  IF cs[3] = "=" THEN <<b1>>
           ELSE LET c == B64Index(cs[3])
                    b2 == (b % 16) * 16 + c \div 4
                IN  IF cs[4] = "=" THEN <<b1, b2>>
                    ELSE <<b1, b2, (c % 4) * 64 + B64Index(cs[4])>>
                         \o b64decode(Drop(cs, 4))

\* C6: with presign=False the result is 'data:' + content type + ';base64,' +
\* payload, the payload decodes to exactly the bytes of the fetched body (the
\* empty body included), and no presigning call is made.
C6_DataUrlRoundTrip ==
  (op = "resolve_s3_url" /\ LastCallIs("get_object", {"ok"})
     /\ Val(Last(calls).returned).content_type # None) =>
    LET object == Val(Last(calls).returned)
        ct == Val(object.content_type)
        head == DataPrefix \o ct \o Base64Marker
    IN  /\ pc = "done" /\ err = None /\ result # None
        /\ Take(Val(result), Len(head)) = head
        /\ b64decode(Drop(Val(result), Len(head))) = object.Body
        /\ Len(Drop(Val(result), Len(head))) = 4 * ((Len(object.Body) + 2) \div 3)
        /\ \A i \in 1..Len(Drop(Val(result), Len(head))) :
             \/ \E n \in 0..63 : Drop(Val(result), Len(head))[i] = B64Alphabet[n + 1]
             \/ Drop(Val(result), Len(head))[i] = "="
        /\ CallsOf("generate_presigned_url") = {}

C6_Witness ==
  /\ op = "resolve_s3_url" /\ pc = "done" /\ ~args.presign
  /\ LastCallIs("get_object", {"ok"})
  /\ Val(Last(calls).returned).Body = <<77, 255>>
  /\ Val(Last(calls).returned).content_type = Some(<<"i", "m", "a", "g", "e", "/", "p", "n", "g">>)
  /\ result = Some(<<"d", "a", "t", "a", ":", "i", "m", "a", "g", "e", "/", "p", "n", "g",
                     ";", "b", "a", "s", "e", "6", "4", ",", "T", "f", "8", "=">>)

\* C7: the mapping get_blob_metadata returns never has the key 'Body' or the key
\* 'ResponseMetadata' and has every other attribute of the fetched object, with
\* its value, and nothing else -- also when the object has neither key.
C7_MetadataStripsBodyAndResponseMetadata ==
  (op = "get_blob_metadata" /\ LastCallIs("get_object", {"ok"})) =>
    LET object == Val(Last(calls).returned)
        metadata == Val(result)
    IN  /\ pc = "done" /\ err = None /\ result # None
        /\ "Body" \notin DOMAIN metadata
        /\ "ResponseMetadata" \notin DOMAIN metadata
        /\ DOMAIN metadata = (DOMAIN object) \ {"Body", "ResponseMetadata"}
        /\ \A k \in DOMAIN metadata : metadata[k] = object[k]

C7_Witness ==
  /\ op = "get_blob_metadata" /\ pc = "done"
  /\ LastCallIs("get_object", {"ok"})
  /\ DOMAIN Val(Last(calls).returned) = AttrNames
  /\ DOMAIN Val(result) = {"ContentLength", "ETag"}
  /\ Val(result)["ContentLength"] = 1

\* the path with one leading slash removed
StripOneSlash(path) == IF path # <<>> /\ path[1] = "/" THEN Tail(path) ELSE path

\* C9 (as claimed): the SDK gets the bucket equal to the URL's host component and
\* the key equal to the URL's path component without its leading slash.
C9_KeyIsPathWithoutLeadingSlash ==
  (op = "resolve_s3_url" /\ calls # <<>>) =>
    /\ Last(calls).call.Bucket = UrlParse(args.url).netloc
    /\ Last(calls).call.Key = StripOneSlash(UrlParse(args.url).path)

\* C9 (amended): the SDK gets the bucket equal to the URL's host component and the
\* key equal to the URL's path component without all of its leading slashes;
\* s3://bucket-a/path/to/key gives bucket 'bucket-a' and key 'path/to/key'; the
\* presign and the non-presign branch use the same pair.
C9_KeyIsPathWithoutLeadingSlashes ==
  (op = "resolve_s3_url" /\ calls # <<>>) =>
    LET path == UrlParse(args.url).path
        key == Last(calls).call.Key
    IN  /\ Last(calls).call.Bucket = UrlParse(args.url).netloc
        /\ \E n \in 0..Len(path) :
             /\ \A i \in 1..n : path[i] = "/"
             /\ key = Drop(path, n)
        /\ key = <<>> \/ key[1] # "/"
        /\ args.url = ExampleUrl =>
             /\ Last(calls).call.Bucket = <<"b", "u", "c", "k", "e", "t", "-", "a">>
             /\ key = <<"p", "a", "t", "h", "/", "t", "o", "/", "k", "e", "y">>
        /\ Len(calls) = 1
        /\ Last(calls).call.method = IF args.presign THEN "generate_presigned_url"
                                     ELSE "get_object"

C9_Witness ==
  /\ op = "resolve_s3_url" /\ ~args.presign
  /\ args.url = DoubleSlashUrl
  /\ calls # <<>>
  /\ Last(calls).call.Bucket = <<"b", "u", "c", "k", "e", "t", "-", "a">>
  /\ Last(calls).call.Key = <<"p", "a", "t", "h">>

\* C10: a get_object failure in resolve_s3_url (presign=False) or in
\* get_blob_metadata ends the call with that error after exactly one fetch: no
\* value is returned, nothing is retried, no presigned URL is asked for.
C10_FetchFailurePropagates ==
  LastCallIs("get_object", FetchErrors) =>
    /\ pc = "raised"
    /\ err = Some(Last(calls).outcome)
    /\ result = None
    /\ Cardinality(CallsOf("get_object")) = 1
    /\ CallsOf("generate_presigned_url") = {}

C10_Witness ==
  /\ op = "get_blob_metadata" /\ args.client = None /\ session # None
  /\ LastCallIs("get_object", {"NoSuchKey"})
  /\ pc = "raised" /\ err = Some("NoSuchKey")

====
